---- MODULE Spec2Model ----
(***************************************************************************)
(* RomeWeatherWidget (src/src/RomeWeatherWidget.tsx): the widget's React   *)
(* state, the scheduling of fetchWeather (mount effect, interval timer,    *)
(* Refresh button), the steps of the asynchronous fetchWeather, and the    *)
(* presenter expressions of the render function.                           *)
(*                                                                         *)
(* A nullable JavaScript value is a tuple: <<>> is null/undefined, <<x>>   *)
(* is the value x.                                                         *)
(***************************************************************************)
EXTENDS Integers, Sequences, FiniteSets, TLC

VARIABLES
    phase,        \* "init" (rendered, effects not yet run), "mounted", "unmounted"
    timerActive,  \* the setInterval id of useInterval is live
    data,         \* useState: data
    loading,      \* useState: loading
    error,        \* useState: error
    lastUpdated,  \* useState: lastUpdated
    pc,           \* pc[i]: where the i-th call of fetchWeather stands
    fetches,      \* number of calls of fetchWeather so far
    ticks,        \* number of interval-timer ticks so far
    clicks,       \* number of clicks on Refresh so far
    resolved,     \* number of calls of fetchWeather that have completed
    lastOutcome,  \* history: what the last completed call ended with
    clock,        \* wall clock, in event-loop turns
    viewerTz,     \* presenter: the two viewers' local UTC offsets (minutes)
    now,          \* presenter: useMemo(() => new Date(), [])
    view          \* presenter: view[k] is what viewer k has on screen

vars == <<phase, timerActive, data, loading, error, lastUpdated, pc, fetches,
          ticks, clicks, resolved, lastOutcome, clock, viewerTz, now, view>>

widgetVars == <<phase, timerActive, pc, fetches, ticks, clicks, resolved,
                lastOutcome, clock>>

None == <<>>
Some(x) == <<x>>

(***************************************************************************)
(* Bounds                                                                  *)
(***************************************************************************)
MaxFetches == 3      \* calls of fetchWeather in one run

FetchIds == 1..MaxFetches

\* lastOutcome before any call has completed
NoOutcome == [id |-> 0, kind |-> "none", ok |-> FALSE, payload |-> None, message |-> ""]

(***************************************************************************)
(* JSON values of the response. A number is kept in tenths (186 is 18.6);  *)
(* an ISO timestamp is its form and its minutes since 00:00 of the day of  *)
(* the run: "utc" carries an offset (a trailing Z), "local" carries none,  *)
(* "invalid" does not parse, "empty" is the empty string.                  *)
(***************************************************************************)
Num(n) == [t |-> "number", n |-> n, s |-> ""]
Str(s) == [t |-> "string", n |-> 0, s |-> s]
Bool(b) == [t |-> "boolean", n |-> IF b THEN 1 ELSE 0, s |-> ""]
JNull == [t |-> "null", n |-> 0, s |-> ""]
Undefined == [t |-> "undefined", n |-> 0, s |-> ""]

Iso(form, minutes) == [form |-> form, minutes |-> minutes]

Current(temp, feels, hum, wind, code) ==
    [temperature_2m |-> temp, apparent_temperature |-> feels,
     relative_humidity_2m |-> hum, wind_speed_10m |-> wind, weather_code |-> code]

Doc(current, sunrise, sunset) ==
    [current |-> current, daily |-> Some([sunrise |-> sunrise, sunset |-> sunset])]

SnapshotA ==
    Doc(Some(Current(Num(186), Num(179), Num(64), Num(123), Num(0))),
        <<Iso("local", 332)>>, <<Iso("local", 1235)>>)
SnapshotB ==
    Doc(Some(Current(Num(-25), Num(-4), Num(85), Num(5), Num(610))),
        <<Iso("local", 333)>>, <<Iso("local", 1234)>>)

(***************************************************************************)
(* Presenter: the expressions of the render function                       *)
(***************************************************************************)
RomeUtcOffset == 60   \* TIMEZONE = "Europe/Rome", in minutes east of UTC (CET)

Dash == "-"           \* stands for the en dash of the source

\* typeof x
TypeOf(v) == IF v.t = "null" THEN "object" ELSE v.t

Pad2(n) == IF n < 10 THEN "0" \o ToString(n) ELSE ToString(n)

\* Intl.DateTimeFormat("en-GB", {hour: "2-digit", minute: "2-digit",
\* hour12: false, timeZone}).format(instant), the zone given by its offset
FormatHHMM(instant, offset) ==
    LET m == (instant + offset) % 1440
    IN Pad2(m \div 60) \o ":" \o Pad2(m % 60)

\* The header's format adds weekday, day and month: the day of the run
FormatDayHHMM(instant, offset) ==
    "day " \o ToString((instant + offset) \div 1440) \o ", "
        \o FormatHHMM(instant, offset)

\* new Date(isoString) as evaluated by a viewer whose local offset is tz:
\* a date-time without an offset is local time, an unparseable one is
\* Invalid Date (None)
DateParse(iso, tz) ==
    CASE iso.form = "utc" -> Some(iso.minutes)
      [] iso.form = "local" -> Some(iso.minutes - tz)
      [] OTHER -> None

\* formatTime(isoString); formatting Invalid Date throws RangeError, caught
formatTime(isoString, tz) ==
    IF isoString = None \/ isoString[1].form = "empty" THEN Dash
    ELSE LET dt == DateParse(isoString[1], tz)
         IN IF dt = None THEN Dash ELSE FormatHHMM(dt[1], RomeUtcOffset)

\* Math.round of a number in tenths: floor(x + 0.5)
MathRound(n) == (n + 5) \div 10

\* DisplayNumber without the typeof guard: Math.round coerces its argument
DisplayNumberCoerced(v) ==
    CASE v.t = "number" -> ToString(MathRound(v.n))
      [] v.t = "null" -> "0"
      [] v.t = "boolean" -> ToString(v.n)
      [] v.t = "string" /\ v.s = "18" -> "18"
      [] OTHER -> "NaN"

\* typeof x === "number" ? Math.round(x) : "–"
DisplayNumber(v) ==
    IF TypeOf(v) = "number" THEN ToString(MathRound(v.n)) ELSE Dash

codeMap ==
    [c \in {0, 1, 2, 3, 45, 48, 51, 53, 55, 61, 63, 65, 71, 73, 75, 95, 96, 99} |->
       CASE c = 0 -> [label |-> "Clear sky", icon |-> "Sun"]
         [] c = 1 -> [label |-> "Mainly clear", icon |-> "Sun"]
         [] c = 2 -> [label |-> "Partly cloudy", icon |-> "Sun"]
         [] c = 3 -> [label |-> "Overcast", icon |-> "Sun"]
         [] c = 45 -> [label |-> "Fog", icon |-> "Droplets"]
         [] c = 48 -> [label |-> "Depositing rime fog", icon |-> "Droplets"]
         [] c = 51 -> [label |-> "Light drizzle", icon |-> "Droplets"]
         [] c = 53 -> [label |-> "Moderate drizzle", icon |-> "Droplets"]
         [] c = 55 -> [label |-> "Dense drizzle", icon |-> "Droplets"]
         [] c = 61 -> [label |-> "Light rain", icon |-> "Droplets"]
         [] c = 63 -> [label |-> "Moderate rain", icon |-> "Droplets"]
         [] c = 65 -> [label |-> "Heavy rain", icon |-> "Droplets"]
         [] c = 71 -> [label |-> "Light snow", icon |-> "Droplets"]
         [] c = 73 -> [label |-> "Moderate snow", icon |-> "Droplets"]
         [] c = 75 -> [label |-> "Heavy snow", icon |-> "Droplets"]
         [] c = 95 -> [label |-> "Thunderstorm", icon |-> "Droplets"]
         [] c = 96 -> [label |-> "Thunderstorm w/ hail", icon |-> "Droplets"]
         [] c = 99 -> [label |-> "Thunderstorm w/ hail", icon |-> "Droplets"]]

\* const current = data?.current
CurrentOf(d) == IF d = None THEN None ELSE d[1].current

\* current?.<field>
Field(current, name) == IF current = None THEN Undefined ELSE current[1][name]

\* daily?.sunrise?.[0], daily?.sunset?.[0]
FirstOf(d, name) ==
    IF d = None \/ d[1].daily = None THEN None
    ELSE LET list == d[1].daily[1][name]
         IN IF Len(list) = 0 THEN None ELSE Some(list[1])

\* const code = current?.weather_code ?? -1
WeatherCode(current) ==
    LET c == Field(current, "weather_code")
    IN IF c.t \in {"null", "undefined"} THEN Num(-10) ELSE c

\* CodeInfo that tests the code for truthiness before the lookup
CodeInfoTruthyCode(code) ==
    IF code.t = "number" /\ code.n # 0 /\ code.n % 10 = 0
       /\ (code.n \div 10) \in DOMAIN codeMap
    THEN codeMap[code.n \div 10]
    ELSE [label |-> "Conditions", icon |-> "Sun"]

\* const codeInfo = codeMap[code] || { label: "Conditions", icon: <Sun/> },
\* for a code that is a number: the property key of a number is its decimal
\* text, so only a whole number can name a key
CodeInfo(code) ==
    IF code.t = "number" /\ code.n % 10 = 0 /\ (code.n \div 10) \in DOMAIN codeMap
    THEN codeMap[code.n \div 10]
    ELSE [label |-> "Conditions", icon |-> "Sun"]

\* lastUpdated ? "Updated " + Intl.DateTimeFormat("en-GB", {hour, minute,
\* hour12: false}).format(lastUpdated) : "Loading…"; no timeZone option, so
\* the zone is the viewer's
UpdatedMarker(updated, tz) ==
    IF updated = None THEN "Loading..."
    ELSE "Updated " \o FormatHHMM(updated[1], tz)

\* What the render function puts on screen for a viewer whose local offset is tz
RenderWidget(tz) ==
    LET current == CurrentOf(data)
        codeInfo == CodeInfo(WeatherCode(current))
    IN [icon |-> codeInfo.icon,
        header |-> FormatDayHHMM(now, RomeUtcOffset),
        temperature |-> DisplayNumber(Field(current, "temperature_2m")),
        label |-> codeInfo.label,
        feelsLike |-> DisplayNumber(Field(current, "apparent_temperature")),
        humidity |-> DisplayNumber(Field(current, "relative_humidity_2m")),
        wind |-> DisplayNumber(Field(current, "wind_speed_10m")),
        sunrise |-> formatTime(FirstOf(data, "sunrise"), tz),
        sunset |-> formatTime(FirstOf(data, "sunset"), tz),
        footerWind |-> DisplayNumber(Field(current, "wind_speed_10m")),
        footerHumidity |-> DisplayNumber(Field(current, "relative_humidity_2m")),
        updated |-> UpdatedMarker(lastUpdated, tz),
        loadingBanner |-> loading,
        errorBanner |-> error]

\* The widget is rendered for viewer k
Render(k) ==
    /\ view[k] = None
    /\ view' = [view EXCEPT ![k] = Some(RenderWidget(viewerTz[k]))]
    /\ UNCHANGED <<widgetVars, data, loading, error, lastUpdated, viewerTz, now>>

(***************************************************************************)
(* Inputs of the presenter                                                 *)
(***************************************************************************)
MaxTenths == 16      \* the stats range over -1.6 .. 1.6, in tenths
MaxCode == 100       \* the weather codes range over -1 .. 100, and 999

ViewerOffsets == {-300, 0, 60}            \* New York, UTC, Rome
Instants == {15, 720, 1410}               \* minutes since 00:00 UTC

StatValues ==
    {Num(n) : n \in -MaxTenths..MaxTenths}
        \cup {Num(186), Num(-186), JNull, Undefined, Str("18"), Str("abc"), Bool(TRUE)}

StatSamples == {Num(186), Num(0), Num(-4), JNull, Undefined, Str("18")}

CodeValues ==
    {Num(10 * c) : c \in -1..MaxCode} \cup {Num(9990), Num(5), Num(455), JNull, Undefined}

IsoValues ==
    {Iso(f, m) : f \in {"utc", "local"}, m \in {332, 1235}}
        \cup {Iso("invalid", 0), Iso("empty", 0)}

StatDocs ==
    {Doc(Some(Current(a, b, c, d, Num(0))), <<Iso("local", 332)>>, <<Iso("local", 1235)>>) :
        a \in StatValues, b \in StatSamples, c \in {Num(64), Undefined, Num(-5)},
        d \in {Num(123), JNull, Num(15)}}
    \cup
    {Doc(Some(Current(Num(186), Num(179), c, d, Num(0))), <<>>, <<>>) :
        c \in StatValues, d \in StatValues}

CodeDocs ==
    {Doc(Some(Current(Num(186), Num(179), Num(64), Num(123), code)),
         <<Iso("local", 332)>>, <<Iso("local", 1235)>>) : code \in CodeValues}
    \cup {[current |-> None, daily |-> None]}

TimeDocs ==
    {Doc(Some(Current(Num(186), Num(179), Num(64), Num(123), Num(30))), sr, ss) :
        sr \in {<<>>} \cup {<<i>> : i \in IsoValues},
        ss \in {<<>>, <<Iso("local", 1235), Iso("local", 1236)>>, <<Iso("utc", 1175)>>}}

\* A state the widget can be in when it renders: no data yet, or the data
\* and the timestamp of the last successful fetch, with or without an error
PresenterInit ==
    /\ phase = "mounted"
    /\ timerActive = TRUE
    /\ pc = [i \in FetchIds |-> "idle"]
    /\ fetches = 0 /\ ticks = 0 /\ clicks = 0 /\ resolved = 0
    /\ lastOutcome = NoOutcome
    /\ clock = 0
    /\ view = <<None, None>>
    /\ \/ /\ data = None /\ lastUpdated = None
          /\ loading \in BOOLEAN
          /\ error \in {None, Some("HTTP 500")}
          /\ now \in Instants
          /\ viewerTz \in ViewerOffsets \X ViewerOffsets
       \/ /\ data \in {Some(d) : d \in StatDocs \cup CodeDocs}
          /\ lastUpdated = Some(720)
          /\ loading = FALSE
          /\ error \in {None, Some("HTTP 500")}
          /\ now = 720
          /\ viewerTz = <<0, 60>>
       \/ /\ data \in {Some(d) : d \in TimeDocs}
          /\ lastUpdated \in {Some(t) : t \in Instants}
          /\ loading = FALSE
          /\ error = None
          /\ now \in Instants
          /\ viewerTz \in ViewerOffsets \X ViewerOffsets

PresenterNext == \E k \in 1..2 : Render(k)

PresenterSpec == PresenterInit /\ [][PresenterNext]_vars

(***************************************************************************)
(* The fetch responses the environment can produce.                        *)
(***************************************************************************)
Payloads == {SnapshotA, SnapshotB}            \* parsed JSON bodies
ErrorStatuses == {404, 500}                   \* res.ok is false
NetworkErrors == {"Failed to fetch", ""}      \* e.message of a rejected fetch()
ParseErrors == {"Unexpected end of JSON input", ""}  \* e.message of a rejected res.json()

\* `HTTP ${res.status}`
HttpMessage(status) == "HTTP " \o ToString(status)

\* e?.message || "Failed to fetch weather"
ErrorText(message) == IF message # "" THEN message ELSE "Failed to fetch weather"

(***************************************************************************)
(* fetchWeather                                                            *)
(***************************************************************************)
\* InvokeFetch with a setLoading(true) added at the start of the call
InvokeFetchSetsLoading ==
    /\ fetches < MaxFetches
    /\ fetches' = fetches + 1
    /\ pc' = [pc EXCEPT ![fetches + 1] = "awaitFetch"]
    /\ error' = None
    /\ loading' = TRUE
    /\ clock' = clock + 1
    /\ UNCHANGED <<data, lastUpdated, resolved, lastOutcome>>

\* The synchronous start of a call: setError(null), then fetch(ENDPOINT) is
\* issued and the call suspends at the first await.
InvokeFetch ==
    /\ fetches < MaxFetches
    /\ fetches' = fetches + 1
    /\ pc' = [pc EXCEPT ![fetches + 1] = "awaitFetch"]
    /\ error' = None
    /\ clock' = clock + 1
    /\ UNCHANGED <<data, loading, lastUpdated, resolved, lastOutcome>>

\* Catch that also blanks the stats: setData(null); setLastUpdated(null)
CatchClearsData(i, kind, message) ==
    /\ error' = Some(ErrorText(message))
    /\ loading' = FALSE
    /\ data' = None
    /\ lastUpdated' = None
    /\ pc' = [pc EXCEPT ![i] = "done"]
    /\ resolved' = resolved + 1
    /\ lastOutcome' = [id |-> i, kind |-> kind, ok |-> FALSE, payload |-> None,
                       message |-> message]
    /\ clock' = clock + 1

\* Catch without the finally block: the loading flag is left as it was
CatchWithoutFinally(i, kind, message) ==
    /\ error' = Some(ErrorText(message))
    /\ pc' = [pc EXCEPT ![i] = "done"]
    /\ resolved' = resolved + 1
    /\ lastOutcome' = [id |-> i, kind |-> kind, ok |-> FALSE, payload |-> None,
                       message |-> message]
    /\ clock' = clock + 1
    /\ UNCHANGED <<data, lastUpdated, loading>>

\* catch (e) { setError(...) } finally { setLoading(false) }
Catch(i, kind, message) ==
    /\ error' = Some(ErrorText(message))
    /\ loading' = FALSE
    /\ pc' = [pc EXCEPT ![i] = "done"]
    /\ resolved' = resolved + 1
    /\ lastOutcome' = [id |-> i, kind |-> kind, ok |-> FALSE, payload |-> None,
                       message |-> message]
    /\ clock' = clock + 1
    /\ UNCHANGED <<data, lastUpdated>>

\* fetch() resolved with res.ok: the call suspends at await res.json()
ResponseOk(i) ==
    /\ pc[i] = "awaitFetch"
    /\ pc' = [pc EXCEPT ![i] = "awaitJson"]
    /\ clock' = clock + 1
    /\ UNCHANGED <<phase, timerActive, data, loading, error, lastUpdated,
                   fetches, ticks, clicks, resolved, lastOutcome>>

\* fetch() resolved with !res.ok: throw new Error(`HTTP ${res.status}`)
ResponseHttpError(i, status) ==
    /\ pc[i] = "awaitFetch"
    /\ Catch(i, "http", HttpMessage(status))
    /\ UNCHANGED <<phase, timerActive, fetches, ticks, clicks>>

\* fetch() rejected (transport failure)
NetworkFailure(i, message) ==
    /\ pc[i] = "awaitFetch"
    /\ Catch(i, "network", message)
    /\ UNCHANGED <<phase, timerActive, fetches, ticks, clicks>>

\* JsonParsed with setLoading(false) missing from the success path
JsonParsedKeepsLoading(i, json) ==
    /\ pc[i] = "awaitJson"
    /\ data' = Some(json)
    /\ lastUpdated' = Some(clock + 1)
    /\ pc' = [pc EXCEPT ![i] = "done"]
    /\ resolved' = resolved + 1
    /\ lastOutcome' = [id |-> i, kind |-> "success", ok |-> TRUE,
                       payload |-> Some(json), message |-> ""]
    /\ clock' = clock + 1
    /\ UNCHANGED <<phase, timerActive, loading, error, fetches, ticks, clicks>>

\* res.json() resolved: setData(json); setLastUpdated(new Date()); finally
JsonParsed(i, json) ==
    /\ pc[i] = "awaitJson"
    /\ data' = Some(json)
    /\ lastUpdated' = Some(clock + 1)
    /\ loading' = FALSE
    /\ pc' = [pc EXCEPT ![i] = "done"]
    /\ resolved' = resolved + 1
    /\ lastOutcome' = [id |-> i, kind |-> "success", ok |-> TRUE,
                       payload |-> Some(json),
                       message |-> ""]
    /\ clock' = clock + 1
    /\ UNCHANGED <<phase, timerActive, error, fetches, ticks, clicks>>

\* res.json() rejected (malformed body)
JsonFailure(i, message) ==
    /\ pc[i] = "awaitJson"
    /\ Catch(i, "parse", message)
    /\ UNCHANGED <<phase, timerActive, fetches, ticks, clicks>>

(***************************************************************************)
(* Scheduling                                                              *)
(***************************************************************************)
\* The effects of the first commit: useEffect(() => { fetchWeather() }, [])
\* and useInterval's setInterval(..., REFRESH_MS).
Mount ==
    /\ phase = "init"
    /\ phase' = "mounted"
    /\ timerActive' = TRUE
    /\ InvokeFetch
    /\ UNCHANGED <<ticks, clicks>>

\* The interval timer fires: savedRef.current(), which calls fetchWeather.
Tick ==
    /\ timerActive
    /\ ticks' = ticks + 1
    /\ InvokeFetch
    /\ UNCHANGED <<phase, timerActive, clicks>>

\* Click that is dropped while a call of fetchWeather is in flight
ClickCoalesced ==
    /\ phase = "mounted"
    /\ clicks < MaxFetches
    /\ clicks' = clicks + 1
    /\ IF \E i \in FetchIds : pc[i] \in {"awaitFetch", "awaitJson"}
       THEN UNCHANGED <<data, loading, error, lastUpdated, pc, fetches, resolved,
                        lastOutcome, clock>>
       ELSE InvokeFetch
    /\ UNCHANGED <<phase, timerActive, ticks>>

\* The Refresh button: onClick={fetchWeather}. The button exists while mounted.
Click ==
    /\ phase = "mounted"
    /\ clicks' = clicks + 1
    /\ InvokeFetch
    /\ UNCHANGED <<phase, timerActive, ticks>>

\* Unmount whose effect cleanup does not clear the interval
UnmountKeepsTimer ==
    /\ phase = "mounted"
    /\ phase' = "unmounted"
    /\ clock' = clock + 1
    /\ UNCHANGED <<timerActive, data, loading, error, lastUpdated, pc, fetches,
                   ticks, clicks, resolved, lastOutcome>>

\* Teardown: the effect cleanup () => clearInterval(id)
Unmount ==
    /\ phase = "mounted"
    /\ phase' = "unmounted"
    /\ timerActive' = FALSE
    /\ clock' = clock + 1
    /\ UNCHANGED <<data, loading, error, lastUpdated, pc, fetches, ticks, clicks,
                   resolved, lastOutcome>>

\* useState initial values, before the effects of the first commit have run
WidgetInit ==
    /\ phase = "init"
    /\ timerActive = FALSE
    /\ data = None
    /\ loading = TRUE
    /\ error = None
    /\ lastUpdated = None
    /\ pc = [i \in FetchIds |-> "idle"]
    /\ fetches = 0
    /\ ticks = 0
    /\ clicks = 0
    /\ resolved = 0
    /\ lastOutcome = NoOutcome
    /\ clock = 0

Init ==
    /\ WidgetInit
    /\ viewerTz = <<0, 0>>
    /\ now = 0
    /\ view = <<None, None>>

Next ==
    \/ Mount /\ UNCHANGED <<viewerTz, now, view>>
    \/ Tick /\ UNCHANGED <<viewerTz, now, view>>
    \/ Click /\ UNCHANGED <<viewerTz, now, view>>
    \/ Unmount /\ UNCHANGED <<viewerTz, now, view>>
    \/ \E i \in FetchIds :
        \/ ResponseOk(i) /\ UNCHANGED <<viewerTz, now, view>>
        \/ \E status \in ErrorStatuses :
             ResponseHttpError(i, status) /\ UNCHANGED <<viewerTz, now, view>>
        \/ \E message \in NetworkErrors :
             NetworkFailure(i, message) /\ UNCHANGED <<viewerTz, now, view>>
        \/ \E json \in Payloads :
             JsonParsed(i, json) /\ UNCHANGED <<viewerTz, now, view>>
        \/ \E message \in ParseErrors :
             JsonFailure(i, message) /\ UNCHANGED <<viewerTz, now, view>>

Spec == Init /\ [][Next]_vars

(***************************************************************************)
(* Properties of the scheduling and of fetchWeather, checked under Spec    *)
(***************************************************************************)
InFlight(i) == pc[i] \in {"awaitFetch", "awaitJson"}

\* A step in which a call of fetchWeather completes, and one in which it fails
Completes == resolved' = resolved + 1
Fails == Completes /\ ~lastOutcome'.ok

\* C1: once the mount effect has run, the number of calls of fetchWeather is
\* 1 + ticks + clicks, whatever the earlier calls are doing or ended with;
\* before it, no call has been made.
C1_FetchCount ==
    IF phase = "init" THEN fetches = 0 ELSE fetches = 1 + ticks + clicks

\* A tick and a click were both served while the call before them was still
\* in flight and the first call had ended in an error.
C1_Witness ==
    /\ phase = "mounted" /\ ticks = 1 /\ clicks = 1 /\ fetches = 3
    /\ pc[1] = "done" /\ ~lastOutcome.ok /\ lastOutcome.id = 1
    /\ InFlight(2) /\ InFlight(3)

\* C2: once the widget is unmounted the interval is cleared and no step calls
\* fetchWeather again; torn down before any tick or click, the call made at
\* mount is the only one.
C2_NoFetchAfterTeardown ==
    [][phase' = "unmounted" =>
         /\ ~timerActive'
         /\ (phase = "unmounted" => fetches' = fetches)
         /\ (ticks' = 0 /\ clicks' = 0 => fetches' = 1)]_vars

\* Torn down before the first tick, and the call made at mount has since completed.
C2_Witness ==
    phase = "unmounted" /\ ticks = 0 /\ clicks = 0 /\ fetches = 1 /\ pc[1] = "done"

\* C3: when at least two calls have completed and none is in flight, the state
\* shown is the outcome of the last call to complete: its response and no error
\* if it succeeded, its error message if it failed.
C3_LastResolvedWins ==
    (phase = "mounted" /\ resolved >= 2 /\ \A i \in FetchIds : ~InFlight(i)) =>
        IF lastOutcome.ok
        THEN data = lastOutcome.payload /\ error = None
        ELSE error = Some(ErrorText(lastOutcome.message))

\* C4: a step in which a call fails leaves data and lastUpdated as they were.
C4_FailureKeepsData ==
    [][Fails => data' = data /\ lastUpdated' = lastUpdated]_vars

\* The stats of an earlier success are on screen next to the error of a later failure.
C4_Witness ==
    /\ data # None /\ lastUpdated # None /\ error # None
    /\ ~lastOutcome.ok /\ resolved >= 2

\* C5: a step in which a call fails ends the call normally with the error set
\* and loading false: "HTTP <status>" for a status failure, the message of
\* the rejection for a network or parse failure that carries one.
C5_FailureIsCaught ==
    [][Fails =>
         /\ pc'[lastOutcome'.id] = "done"
         /\ error' # None
         /\ loading' = FALSE
         /\ (lastOutcome'.kind = "http" => error' \in {Some("HTTP 404"), Some("HTTP 500")})
         /\ (lastOutcome'.kind \in {"network", "parse"} /\ lastOutcome'.message # ""
               => error' = Some(lastOutcome'.message))]_vars

\* The very first call failed with HTTP 500: error shown, loading cleared.
C5_Witness ==
    /\ resolved = 1 /\ lastOutcome.kind = "http" /\ error = Some("HTTP 500")
    /\ loading = FALSE /\ data = None

\* C9 as stated: a step that completes no call (a call being started, a
\* response arriving whose body is still to be parsed) leaves data, error,
\* loading and lastUpdated unchanged.
C9_OnlyCompletionMutates ==
    [][~Completes =>
         data' = data /\ error' = error /\ loading' = loading
         /\ lastUpdated' = lastUpdated]_vars

\* C9 amended: a step that completes no call leaves data, loading and
\* lastUpdated unchanged, and changes error only by starting a call, which
\* sets it to null.
C9_InvocationOnlyClearsError ==
    [][~Completes =>
         /\ data' = data /\ loading' = loading /\ lastUpdated' = lastUpdated
         /\ \/ error' = error
            \/ fetches' = fetches + 1 /\ error' = None]_vars

\* The error of the first call is gone while the second call is still in flight.
C9_Witness ==
    /\ resolved = 1 /\ ~lastOutcome.ok /\ fetches = 2 /\ InFlight(2)
    /\ error = None /\ loading = FALSE

\* C10: loading is true exactly until the first call completes, and while it
\* is true there is neither data nor a last-updated timestamp.
C10_LoadingUntilFirstCompletion ==
    /\ loading = (resolved = 0)
    /\ loading => data = None /\ lastUpdated = None

\* A later call is in flight and the loading flag stays false.
C10_Witness ==
    /\ ~loading /\ resolved >= 1 /\ \E i \in FetchIds : InFlight(i)

(***************************************************************************)
(* Properties of the presenter, checked under PresenterSpec                *)
(***************************************************************************)
StatFields ==
    {<<"temperature", "temperature_2m">>, <<"feelsLike", "apparent_temperature">>,
     <<"humidity", "relative_humidity_2m">>, <<"wind", "wind_speed_10m">>,
     <<"footerWind", "wind_speed_10m">>, <<"footerHumidity", "relative_humidity_2m">>}

Raw(name) == Field(CurrentOf(data), name)

Rendered == {k \in 1..2 : view[k] # None}

KeyCodes == {0, 1, 2, 3, 45, 48, 51, 53, 55, 61, 63, 65, 71, 73, 75, 95, 96, 99}

\* C6: a weather code that is no key of the table, a missing one included,
\* is shown as "Conditions" with the default icon; a code that is a key is
\* shown with its entry's label, and code 0 as "Clear sky".
C6_CodeLabel ==
    \A k \in Rendered :
        LET raw == Raw("weather_code")
            isKey == raw.t = "number" /\ \E c \in KeyCodes : raw.n = 10 * c
            shown == view[k][1]
        IN /\ ~isKey => shown.label = "Conditions" /\ shown.icon = "Sun"
           /\ isKey => shown.label = codeMap[raw.n \div 10].label
           /\ raw = Num(0) => shown.label = "Clear sky"

\* The unknown code 999 is shown as "Conditions".
C6_Witness ==
    /\ 1 \in Rendered /\ Raw("weather_code") = Num(9990)
    /\ view[1][1].label = "Conditions"

\* C7: each stat is shown as the integer nearest to the raw value when the
\* field is a number and as the dash otherwise; never "NaN" or "undefined",
\* and "0" only for a number that rounds to 0.
C7_StatDisplay ==
    \A k \in Rendered : \A f \in StatFields :
        LET raw == Raw(f[2])
            shown == view[k][1][f[1]]
        IN /\ raw.t = "number" =>
                \E d \in ((raw.n \div 10) - 1)..((raw.n \div 10) + 1) :
                    shown = ToString(d) /\ 10 * d - raw.n \in -5..5
           /\ raw.t # "number" => shown = Dash
           /\ shown \notin {"NaN", "undefined"}
           /\ shown = "0" => raw.t = "number" /\ raw.n \in -5..5

\* 18.6 is shown as 19 next to a null feels-like shown as the dash.
C7_Witness ==
    /\ 1 \in Rendered
    /\ Raw("temperature_2m") = Num(186) /\ view[1][1].temperature = "19"
    /\ Raw("apparent_temperature") = JNull /\ view[1][1].feelsLike = Dash

\* C8: two viewers rendering the same state see the same text for the
\* header time, sunrise, sunset and the updated marker, whatever their
\* local timezones.
C8_SameTextForAllViewers ==
    (1 \in Rendered /\ 2 \in Rendered) =>
        /\ view[1][1].header = view[2][1].header
        /\ view[1][1].sunrise = view[2][1].sunrise
        /\ view[1][1].sunset = view[2][1].sunset
        /\ view[1][1].updated = view[2][1].updated

====
